---- MODULE Spec2Model ----
(***************************************************************************)
(* m3u-player: the UniversalPlayer component (backend selection, session   *)
(* initialization, teardown) and the stream classifier it uses.            *)
(*                                                                         *)
(* A URL string is a sequence of tokens ("a", ".mkv", "?", "format=ts"):   *)
(* substring tests of the source are membership tests on the tokens, and   *)
(* the pathname is the part before the first "?" or "#". The token         *)
(* "http://[" is an absolute prefix with a malformed host.                 *)
(*                                                                         *)
(* One step of the model is one run-to-completion piece of JavaScript: an  *)
(* effect run, the continuation of an await, or one dispatched event.      *)
(***************************************************************************)
EXTENDS Naturals, Sequences, FiniteSets, TLC

\* Effect runs (URL changes and re-runs) that may overlap one another.
MaxRequests == 2

\* Effect runs each made with nothing of the earlier ones in flight.
MaxSeqRequests == 3

\* Tokens in a string handed to the classifier.
MaxUrlLen == 3

\* Calls of remuxToFmp4 / remuxStreamingFmp4 / getMediaInfo, which may overlap.
MaxJobs == 2

\* Executor instances constructed (new FFmpeg()).
MaxLoads == 2

\* Segments one segmented run produces.
MaxSegments == 2
MaxReductions == 3
MaxDispatches == 2
MaxStores == 2
MaxClock == 8
\* Playback time reached by the timeupdate events, in half seconds.
MaxHalfSeconds == 12

MaxRuns ==
  IF MaxRequests >= MaxSeqRequests THEN MaxRequests ELSE MaxSeqRequests

----------------------------------------------------------------------------
(* src/utils/streamDetector.js *)

StreamType ==
  [HLS |-> "hls", DASH |-> "dash", MP4 |-> "mp4", WEBM |-> "webm",
   MPEG_TS |-> "ts", MKV |-> "mkv", AVI |-> "avi", UNKNOWN |-> "unknown"]

StreamCategory ==
  [NATIVE |-> "native", LIVE |-> "live", REMUX |-> "remux"]

\* String.prototype.toLowerCase on one token.
LowerTok(t) ==
  CASE t = ".MKV" -> ".mkv"
    [] t = ".M3U8" -> ".m3u8"
    [] t = ".MP4" -> ".mp4"
    [] t = "FORMAT=TS" -> "format=ts"
    [] OTHER -> t

toLowerCase(s) ==
  [i \in 1..Len(s) |-> LowerTok(s[i])]

includes(s, t) ==
  \E i \in 1..Len(s) : s[i] = t

\* endsWith testing for an occurrence anywhere.
endsWith_Anywhere(s, t) ==
  \E i \in 1..Len(s) : s[i] = t

endsWith(s, t) ==
  Len(s) > 0 /\ s[Len(s)] = t

\* new URL(url, origin) throws for a string that has a scheme (letters up to
\* the first ":") and a malformed host; a string without a scheme is resolved
\* against the origin.
parses(u) ==
  ~\E i \in 1..Len(u) : u[i] = "http://[" /\ \A j \in 1..(i - 1) : u[j] = "a"

\* pathname without the query string and fragment taken off.
pathnameOf_Whole(u) ==
  u

\* new URL(url, origin).pathname: the part before the query string or fragment.
pathnameOf(u) ==
  LET q == {i \in 1..Len(u) : u[i] \in {"?", "#"}}
  IN IF q = {} THEN u
     ELSE SubSeq(u, 1, (CHOOSE i \in q : \A j \in q : i <= j) - 1)

Descriptor(t, c) ==
  [type |-> t, category |-> c]

\* The call ends in a TypeError instead of returning a descriptor.
Raised ==
  [type |-> "TypeError", category |-> "Invalid URL"]

detectStreamType(u) ==
  IF u = <<>> THEN Descriptor(StreamType.UNKNOWN, StreamCategory.NATIVE)
  ELSE IF ~parses(u) THEN Raised
  ELSE
  LET urlLower == toLowerCase(u)
      pathname == toLowerCase(pathnameOf(u))
  IN IF includes(urlLower, ".m3u8") \/ includes(urlLower, "format=m3u8")
       THEN Descriptor(StreamType.HLS, StreamCategory.LIVE)
     ELSE IF includes(urlLower, ".mpd")
       THEN Descriptor(StreamType.DASH, StreamCategory.LIVE)
     ELSE IF endsWith(pathname, ".ts") \/ includes(urlLower, "format=ts")
       THEN Descriptor(StreamType.MPEG_TS, StreamCategory.LIVE)
     ELSE IF endsWith(pathname, ".mp4") \/ endsWith(pathname, ".m4v")
       THEN Descriptor(StreamType.MP4, StreamCategory.NATIVE)
     ELSE IF endsWith(pathname, ".webm")
       THEN Descriptor(StreamType.WEBM, StreamCategory.NATIVE)
     ELSE IF endsWith(pathname, ".mkv")
       THEN Descriptor(StreamType.MKV, StreamCategory.REMUX)
     ELSE IF endsWith(pathname, ".avi")
       THEN Descriptor(StreamType.AVI, StreamCategory.REMUX)
     ELSE Descriptor(StreamType.UNKNOWN, StreamCategory.NATIVE)

\* needsRemuxing with AVI left out of its list.
needsRemuxing_MkvOnly(type) ==
  type \in {StreamType.MKV}

needsRemuxing(type) ==
  type \in {StreamType.MKV, StreamType.AVI}

----------------------------------------------------------------------------
(* src/context/PlayerContext: the store *)

\* URLs that positions are saved for.
StoreUrls == {"u1", "u2"}

\* Saved positions, in seconds.
Positions == {30, 60}

\* 7 * 24 * 60 * 60 * 1000 ms; the clock of the model counts days.
Week == 7

\* history: {}
EmptyHistory ==
  [u \in {} |-> [position |-> 0, timestamp |-> 0]]

initialState ==
  [url |-> "null", isPlaying |-> FALSE, currentTime |-> 0, duration |-> 0,
   buffered |-> 0, volume |-> 1, muted |-> FALSE, playbackRate |-> 1,
   streamType |-> "null", streamCategory |-> "null", isLive |-> FALSE,
   mediaInfo |-> [videoCodec |-> "null", audioCodec |-> "null", width |-> "null",
                  height |-> "null", bitrate |-> "null"],
   status |-> "idle", error |-> "null", remuxProgress |-> 0,
   history |-> EmptyHistory]

ActionTypes ==
  [SET_URL |-> "SET_URL", SET_PLAYING |-> "SET_PLAYING", SET_TIME |-> "SET_TIME",
   SET_DURATION |-> "SET_DURATION", SET_BUFFERED |-> "SET_BUFFERED",
   SET_VOLUME |-> "SET_VOLUME", SET_MUTED |-> "SET_MUTED",
   SET_PLAYBACK_RATE |-> "SET_PLAYBACK_RATE", SET_STREAM_INFO |-> "SET_STREAM_INFO",
   SET_MEDIA_INFO |-> "SET_MEDIA_INFO", SET_STATUS |-> "SET_STATUS",
   SET_ERROR |-> "SET_ERROR", SET_REMUX_PROGRESS |-> "SET_REMUX_PROGRESS",
   SAVE_POSITION |-> "SAVE_POSITION", LOAD_HISTORY |-> "LOAD_HISTORY",
   RESET |-> "RESET"]

\* A payload is a record: [value |-> v] for a scalar, the object's own fields
\* for an object, and NullPayload for null / undefined.
NullPayload == [null |-> TRUE]

isNullish(payload) ==
  "null" \in DOMAIN payload

Action(type, payload) ==
  [type |-> type, payload |-> payload]

\* What a reducer call that throws leaves: a TypeError for reading a
\* property of null / undefined.
ReducerRaised == [raised |-> "TypeError"]

\* { ...history, [url]: entry }
withEntry(history, url, entry) ==
  [u \in DOMAIN history \cup {url} |-> IF u = url THEN entry ELSE history[u]]

\* SAVE_POSITION keeping only the entry it writes.
savedHistory_NoSpread(history, url, entry) ==
  [u \in {url} |-> entry]

\* The history of the SAVE_POSITION case.
savedHistory(history, url, entry) ==
  withEntry(history, url, entry)

\* { ...mediaInfo, ...payload }
merged(mediaInfo, payload) ==
  IF isNullish(payload) THEN mediaInfo
  ELSE [f \in DOMAIN mediaInfo |-> IF f \in DOMAIN payload THEN payload[f] ELSE mediaInfo[f]]

\* RESET returning the initial state whole.
resetState_Whole(state) ==
  initialState

\* { ...initialState, history: state.history }
resetState(state) ==
  [initialState EXCEPT !.history = state.history]

\* playerReducer(state, action); clock is what Date.now() returns during the call.
playerReducer(state, action, clock) ==
  LET type == action.type
      payload == action.payload
  IN CASE type = ActionTypes.SET_URL ->
            [state EXCEPT !.url = payload.value, !.status = "loading", !.error = "null",
                          !.currentTime = 0, !.duration = 0]
       [] type = ActionTypes.SET_PLAYING ->
            [state EXCEPT !.isPlaying = payload.value,
                          !.status = IF payload.value THEN "playing" ELSE "paused"]
       [] type = ActionTypes.SET_TIME -> [state EXCEPT !.currentTime = payload.value]
       [] type = ActionTypes.SET_DURATION -> [state EXCEPT !.duration = payload.value]
       [] type = ActionTypes.SET_BUFFERED -> [state EXCEPT !.buffered = payload.value]
       [] type = ActionTypes.SET_VOLUME -> [state EXCEPT !.volume = payload.value]
       [] type = ActionTypes.SET_MUTED -> [state EXCEPT !.muted = payload.value]
       [] type = ActionTypes.SET_PLAYBACK_RATE -> [state EXCEPT !.playbackRate = payload.value]
       [] type = ActionTypes.SET_STREAM_INFO ->
            IF isNullish(payload) THEN ReducerRaised
            ELSE [state EXCEPT !.streamType = payload.type,
                               !.streamCategory = payload.category,
                               !.isLive = IF "isLive" \in DOMAIN payload
                                            THEN payload.isLive ELSE FALSE]
       [] type = ActionTypes.SET_MEDIA_INFO ->
            [state EXCEPT !.mediaInfo = merged(@, payload)]
       [] type = ActionTypes.SET_STATUS -> [state EXCEPT !.status = payload.value]
       [] type = ActionTypes.SET_ERROR ->
            [state EXCEPT !.status = "error", !.error = payload.value]
       [] type = ActionTypes.SET_REMUX_PROGRESS ->
            [state EXCEPT !.remuxProgress = payload.value, !.status = "remuxing"]
       [] type = ActionTypes.SAVE_POSITION ->
            IF isNullish(payload) THEN ReducerRaised
            ELSE [state EXCEPT !.history =
                    savedHistory(@, payload.url,
                                 [position |-> payload.position, timestamp |-> clock])]
       [] type = ActionTypes.LOAD_HISTORY -> [state EXCEPT !.history = payload.value]
       [] type = ActionTypes.RESET -> resetState(state)
       [] OTHER -> state

\* getSavedPosition returning the position of an entry exactly a week old too.
fresh_Inclusive(entry, clock) ==
  entry.timestamp >= clock - Week

\* entry.timestamp > Date.now() - 7 * 24 * 60 * 60 * 1000
fresh(entry, clock) ==
  entry.timestamp > clock - Week

\* getSavedPosition(url), on the history of the store at time clock.
getSavedPosition(history, url, clock) ==
  IF url \in DOMAIN history /\ fresh(history[url], clock)
    THEN history[url].position
    ELSE 0

\* The item under persistKey in localStorage: none, a string that is no JSON
\* object, the JSON of an object without a history, or of one with a history.
NoItem == [k |-> "none"]
BadItem == [k |-> "bad"]
ObjectItem == [k |-> "object"]

\* JSON.stringify({ history })
stringify(history) ==
  [k |-> "history", history |-> history]

\* The payload of the LOAD_HISTORY that the load effect dispatches for item,
\* NullPayload when it dispatches none: no item, JSON.parse throwing, or a
\* parsed object without a history.
loadedHistory(item) ==
  IF item.k = "history" THEN [value |-> item.history] ELSE NullPayload

----------------------------------------------------------------------------
(* src/components/UniversalPlayer.jsx *)

\* shouldUseNativePlayer with WEBM left out of its list.
shouldUseNativePlayer_NoWebm(type) ==
  type \in {StreamType.MP4}

shouldUseNativePlayer(type) ==
  type \in {StreamType.MP4, StreamType.WEBM}

NoUrl == <<>>

\* URLs the caller hands to the component: one per stream kind.
KindUrls ==
  { <<"a", ".m3u8">>, <<"a", ".mpd">>, <<"a", ".ts">>, <<"a", ".mp4">>,
    <<"a", ".webm">>, <<"a", ".mkv">>, <<"a", ".avi">>, <<"a">> }

\* The URLs of a caller that waits for each change to complete: two adaptive
\* kinds, so that consecutive adaptive URLs can differ.
SeqUrls ==
  {<<"a", ".m3u8">>, <<"a", ".mpd">>, <<"a", ".mp4">>, <<"a", ".mkv">>}

\* One URL per backend.
Urls ==
  { <<"a", ".m3u8">>, <<"a", ".mp4">>, <<"a", ".mkv">> }

\* The url prop of effect run r: of any kind at first, then one per backend.
UrlsAt(r) ==
  (IF r = 1 THEN KindUrls ELSE Urls) \cup {NoUrl}


\* detectStreamType was not called yet.
NotCalled ==
  [type |-> "none", category |-> "none"]

VARIABLES
  url,           \* the url prop of the last effect run (NoUrl: none)
  mounted,       \* the component is mounted (videoRef.current is the element)
  requests,      \* number of effect runs so far; run r starts init number r
  status,        \* useState status
  error,         \* useState error ("null": none)
  playerRef,     \* playerRef.current: an engine instance, 0 for null
  objectUrlRef,  \* objectUrlRef.current: an object URL, 0 for null
  video,         \* the <video> sink
  engines,       \* engine instances constructed and not yet destroy()ed
  blobs,         \* object URLs created and not yet revoked
  nextEngine,    \* next engine instance id
  nextBlob,      \* next object URL id
  pending,       \* un-awaited cleanup() calls suspended at await destroy()
  inits,         \* the init() invocations, by effect run
  ops,           \* what the cleanup() calls of the last step did, in order
  lastFailure,   \* the failure the last step saw, and the onError calls the step made
  teardownsInRow, \* completed cleanup() calls in a row, the first of which released something
  onProgress,    \* remuxer.onProgress: the init whose callback is installed (0: null)
  remuxProgress, \* useState remuxProgress, in percent
  reported,      \* the argument of the last onRemuxProgress call
  nativeHls,     \* the sink plays HLS by itself (the Safari / iOS class)
  autoPlay,      \* the autoPlay prop
  classifyUrl,   \* the string handed to detectStreamType
  classified,    \* what detectStreamType did with it
  ffmpeg,        \* remuxer.ffmpeg: an executor instance, 0 for null
  loaded,        \* remuxer.loaded
  loading,       \* remuxer.loading
  loadPromise,   \* remuxer.loadPromise: the _doLoad run it is the promise of, 0 for null
  doLoads,       \* _doLoad runs not yet settled, each named by the instance it constructed
  live,          \* executor instances whose worker is loaded and not terminated
  nextFFmpeg,    \* next executor instance id
  fs,            \* files in the virtual filesystem of remuxer.ffmpeg's worker
  jobs,          \* the remux / probe calls
  store,         \* the state of useReducer(playerReducer, initialState)
  localStorage,  \* the item under persistKey
  now,           \* Date.now(), in days
  provider,      \* the PlayerProvider: mounted, write-back pending, counters,
                 \* and what the last step reduced
  demo           \* PlayerDemo: activeUrl, the sink's currentTime in half seconds,
                 \* and the positions its savePosition calls were given

vars ==
  <<url, mounted, requests, status, error, playerRef, objectUrlRef, video,
    engines, blobs, nextEngine, nextBlob, pending, inits, ops, lastFailure,
    teardownsInRow, onProgress, remuxProgress, reported, nativeHls, autoPlay, classifyUrl,
    classified, ffmpeg, loaded, loading, loadPromise, doLoads, live,
    nextFFmpeg, fs, jobs, store, localStorage, now, provider, demo>>

\* The state of the store and of its persisted item.
storeVars ==
  <<store, localStorage, now, provider, demo>>

\* The state of the RemuxerService singleton and its callers.
svcVars ==
  <<ffmpeg, loaded, loading, loadPromise, doLoads, live, nextFFmpeg, fs, jobs>>

\* The state of the component.
compVars ==
  <<url, mounted, requests, status, error, playerRef, objectUrlRef, video,
    engines, blobs, nextEngine, nextBlob, pending, inits, ops, lastFailure,
    teardownsInRow, onProgress, remuxProgress, reported, nativeHls, autoPlay>>

\* chunks: the segmentIndex arguments of the onChunk calls so far; produced:
\* the number of segments the segmented run wrote.
NoJob ==
  [kind |-> "none", fmt |-> "none", pc |-> "none", awaits |-> 0, index |-> 0,
   result |-> 0, status |-> 0, chunks |-> <<>>, produced |-> 0]

\* PlayerDemo after its first render.
DemoIdle ==
  [activeUrl |-> "", currentTime |-> 0, saved |-> <<>>]

\* No PlayerProvider was mounted yet.
StoreIdle ==
  /\ demo = DemoIdle
  /\ store = initialState
  /\ localStorage = NoItem
  /\ now = 0
  /\ provider = [alive |-> FALSE, dirty |-> FALSE, creates |-> 0, dispatches |-> 0,
                 threw |-> FALSE, last |-> "none"]

\* The service after construction, nothing called yet.
ServiceIdle ==
  /\ ffmpeg = 0 /\ loaded = FALSE /\ loading = FALSE /\ loadPromise = 0
  /\ doLoads = {} /\ live = {} /\ nextFFmpeg = 1 /\ fs = {}
  /\ jobs = [j \in 1..MaxJobs |-> NoJob]

NoSrc == [k |-> "none", id |-> 0]

\* Retry parameters nobody configured: the engine's defaults apply (0).
NoRetry ==
  [maxAttempts |-> 0, baseDelay |-> 0, backoffFactor |-> 0]

\* An engine instance nobody configured.
NoConfig ==
  [lowLatencyMode |-> FALSE, streaming |-> NoRetry, manifest |-> NoRetry]

\* The object handed to player.configure for a live stream: the delay in
\* milliseconds, the factor in tenths; the manifest block names no factor.
liveConfig ==
  [lowLatencyMode |-> TRUE,
   streaming |-> [maxAttempts |-> 10, baseDelay |-> 500, backoffFactor |-> 15],
   manifest |-> [maxAttempts |-> 10, baseDelay |-> 500, backoffFactor |-> 0]]

NoTask ==
  [pc |-> "none", url |-> NoUrl, player |-> 0, paths |-> {}, hist |-> <<>>,
   config |-> NoConfig]

\* The component's state as one record, for the operators below; calls counts
\* the onError invocations of the step being taken.
State ==
  [mounted |-> mounted, status |-> status, error |-> error,
   playerRef |-> playerRef, objectUrlRef |-> objectUrlRef, video |-> video,
   engines |-> engines, blobs |-> blobs, nextEngine |-> nextEngine,
   nextBlob |-> nextBlob, pending |-> pending, inits |-> inits,
   onProgress |-> onProgress, remuxProgress |-> remuxProgress,
   reported |-> reported,
   autoPlay |-> autoPlay,
   ops |-> <<>>, calls |-> 0, fail |-> "none", thrown |-> FALSE]

Commit(R) ==
  /\ status' = R.status
  /\ error' = R.error
  /\ playerRef' = R.playerRef
  /\ objectUrlRef' = R.objectUrlRef
  /\ video' = R.video
  /\ engines' = R.engines
  /\ blobs' = R.blobs
  /\ nextEngine' = R.nextEngine
  /\ nextBlob' = R.nextBlob
  /\ pending' = R.pending
  /\ inits' = R.inits
  /\ onProgress' = R.onProgress
  /\ remuxProgress' = R.remuxProgress
  /\ reported' = R.reported
  /\ UNCHANGED <<nativeHls, autoPlay>>
  /\ UNCHANGED <<classifyUrl, classified>>
  /\ UNCHANGED svcVars
  /\ UNCHANGED storeVars
  /\ ops' = R.ops
  /\ lastFailure' = [kind |-> R.fail, calls |-> R.calls]

\* setState on an unmounted component is ignored by React.
setStatus(R, s) ==
  IF R.mounted THEN [R EXCEPT !.status = s] ELSE R

setError(R, m) ==
  IF R.mounted THEN [R EXCEPT !.error = m] ELSE R

setRemuxProgress(R, v) ==
  IF R.mounted THEN [R EXCEPT !.remuxProgress = v] ELSE R

\* onRemuxProgress was not called yet.
NotReported ==
  [called |-> FALSE, defined |-> FALSE, value |-> 0]

\* Log lines of the executor that carry "time=HH:MM:SS.ff".
LogLines ==
  {[h |-> 0, m |-> 0, s |-> 30], [h |-> 0, m |-> 1, s |-> 30]}

\* _parseProgress: the callback gets { time: totalSeconds, message }, an
\* object without a progress field.
parseProgress(line) ==
  [progress |-> 0, time |-> line.h * 3600 + line.m * 60 + line.s, parsed |-> TRUE]

\* What the executor reports while it runs: a 'progress' event with a ratio
\* (in percent here), or a log line with only the elapsed media time in seconds.
Ticks ==
  {[progress |-> 50, time |-> 0, parsed |-> FALSE]}
    \cup {parseProgress(line) : line \in LogLines}

\* progress || (time ? Math.min(time / 60, 1) : 0), in percent; 0 stands for
\* an absent field as well.
progressValue(tick) ==
  IF tick.progress # 0 THEN tick.progress
  ELSE IF tick.time # 0
    THEN (IF (tick.time * 100) \div 60 < 100 THEN (tick.time * 100) \div 60 ELSE 100)
  ELSE 0

\* onRemuxProgress?.(progress): the progress field of the tick, which a
\* parsed log line does not have.
onRemuxProgress(R, tick) ==
  [R EXCEPT !.reported = [called |-> TRUE, defined |-> ~tick.parsed,
                          value |-> tick.progress]]

\* The callback initRemuxedPlayer installs as remuxer.onProgress.
progressCallback(R, tick) ==
  onRemuxProgress(setRemuxProgress(R, progressValue(tick)), tick)

onError(R) ==
  [R EXCEPT !.calls = @ + 1]

\* init number r records a status it set.
Noted(R, r, s) ==
  [setStatus(R, s) EXCEPT !.inits[r].hist = Append(@, s)]

\* A backend initialization failure of the given kind happened in this step.
failed(R, kind) ==
  [R EXCEPT !.fail = kind]

NoVideo ==
  [src |-> NoSrc, load |-> "empty", paused |-> TRUE, listeners |-> <<>>]

\* cleanup, up to its await: destroy() is called on the tracked instance.
cleanupDestroy(R) ==
  [R EXCEPT !.engines = @ \ {R.playerRef}, !.ops = Append(@, "destroy")]

\* cleanupRest revoking without looking at objectUrlRef.current first.
cleanupRest_AlwaysRevoke(R) ==
  LET A == [R EXCEPT !.blobs = @ \ {R.objectUrlRef}, !.objectUrlRef = 0,
                     !.ops = Append(@, "revoke")]
  IN IF A.mounted
       THEN [A EXCEPT !.video = [NoVideo EXCEPT !.listeners = A.video.listeners],
                      !.ops = @ \o <<"pause", "src", "load">>]
       ELSE A

\* cleanup, after the engine block: revoke the object URL, clear the sink
\* (addEventListener listeners stay on the element).
cleanupRest(R) ==
  LET A == IF R.objectUrlRef # 0
             THEN [R EXCEPT !.blobs = @ \ {R.objectUrlRef},
                            !.objectUrlRef = 0,
                            !.ops = Append(@, "revoke")]
             ELSE R
  IN IF A.mounted
       THEN [A EXCEPT !.video = [NoVideo EXCEPT !.listeners = A.video.listeners],
                      !.ops = @ \o <<"pause", "src", "load">>]
       ELSE A

\* cleanup, resumed after await destroy(): the reference is dropped whatever
\* it holds by now.
cleanupResume(R) ==
  cleanupRest([R EXCEPT !.playerRef = 0])

\* cleanup letting a rejection of destroy() escape.
destroySettled_Propagate(R, outcome) ==
  IF outcome = "rejected" THEN [R EXCEPT !.thrown = TRUE] ELSE R

\* The try / catch around await destroy(): a rejection is logged as a warning.
destroySettled(R, outcome) ==
  IF outcome = "rejected" THEN [R EXCEPT !.ops = Append(@, "warn")] ELSE R

\* cleanup from the point where its destroy() settled.
cleanupSettled(R, outcome) ==
  LET D == destroySettled(R, outcome)
  IN IF D.thrown THEN D ELSE cleanupResume(D)

\* One call of cleanup(), run until it suspends or returns.
cleanup(R) ==
  IF R.playerRef # 0 THEN cleanupDestroy(R) ELSE cleanupRest(R)

\* A call of cleanup() nobody awaits (the effect's cleanup function, the
\* no-URL branch): if it suspends it resumes later on its own.
cleanupDetached(R) ==
  IF R.playerRef # 0 THEN [cleanup(R) EXCEPT !.pending = @ + 1] ELSE cleanup(R)

\* The count of completed cleanup() calls in a row after one more call made
\* in R with the count at k.
RowStep(k, R) ==
  IF R.playerRef # 0 THEN 0
  ELSE IF k >= 1 THEN (IF k < 3 THEN k + 1 ELSE 3)
  ELSE IF R.objectUrlRef # 0 THEN 1
  ELSE 0

\* init r returned; the statuses it set are no longer tracked.
finish(R, r) ==
  [R EXCEPT !.inits[r].pc = "done", !.inits[r].hist = <<>>]

\* initNativePlayer: register canplay/error listeners, set the source, load.
initNativePlayer(R, r, src) ==
  IF ~R.mounted THEN finish(R, r)
  ELSE [R EXCEPT !.video = [src |-> src, load |-> "loading", paused |-> TRUE,
                            listeners |-> Append(@.listeners, r)],
                 !.inits[r].pc = "canplay"]

\* init r returned through a catch block.
finishFailed(R, r) ==
  [R EXCEPT !.inits[r].pc = "failed", !.inits[r].hist = <<>>]

\* The catch block of init without its setStatus('error').
initCatch_NoStatus(R, r, m) ==
  finishFailed(onError(setError(R, m)), r)

\* The catch block of init.
initCatch(R, r, m) ==
  finishFailed(onError(Noted(setError(R, m), r, "error")), r)

\* initShakaPlayer up to await player.attach(video).
initShakaPlayer(R, r) ==
  IF ~R.mounted THEN finish(R, r)
  ELSE [R EXCEPT !.engines = @ \cup {R.nextEngine},
                 !.nextEngine = @ + 1,
                 !.inits[r].player = R.nextEngine,
                 !.inits[r].pc = "attach"]

\* const isLive = category === StreamCategory.LIVE
isLive(u) ==
  detectStreamType(u).category = StreamCategory.LIVE

\* initShakaPlayer from playerRef.current = player to await player.load():
\* the instance is configured for a live stream, then asked to load.
initShakaAttached(R, r) ==
  [R EXCEPT !.playerRef = R.inits[r].player,
            !.inits[r].config = IF isLive(R.inits[r].url) THEN liveConfig ELSE @,
            !.video = [@ EXCEPT !.src = [k |-> "mse", id |-> R.inits[r].player],
                                !.load = "loading", !.paused = TRUE],
            !.inits[r].pc = "load"]

\* A rejected play() handled like a playback error.
playRejected_Escalate(R) ==
  onError(setStatus(setError([R EXCEPT !.ops = Append(@, "blocked")], "Autoplay blocked"),
                    "error"))

\* console.warn('Autoplay blocked:', e) in the catch of video.play().
playRejected(R) ==
  [R EXCEPT !.ops = Append(@, "blocked")]

\* if (autoPlay) video.play(), which the host allows or rejects; an allowed
\* request makes the sink start playing, which it reports by its play event.
\* The host rejects a request only on a sink that is not playing yet.
autoplay(R, allowed) ==
  IF ~R.autoPlay THEN R
  ELSE LET P == [R EXCEPT !.ops = Append(@, "play")]
       IN IF allowed THEN P ELSE playRejected(P)

\* initShakaPlayer after player.load() resolved.
initShakaLoaded(R, r, allowed) ==
  finish(autoplay(Noted(R, r, "ready"), allowed), r)

\* initRemuxedPlayer without its setStatus('remuxing').
initRemuxedPlayer_NoStatus(R, r) ==
  [R EXCEPT !.inits[r].pc = "remux"]

\* initRemuxedPlayer up to await remuxer.remuxToFmp4().
initRemuxedPlayer(R, r) ==
  [setRemuxProgress(Noted(R, r, "remuxing"), 0) EXCEPT
     !.onProgress = r, !.inits[r].pc = "remux"]

\* initRemuxedPlayer after the remux: object URL, then the native player.
initRemuxedDone(R, r) ==
  initNativePlayer(
    [R EXCEPT !.blobs = @ \cup {R.nextBlob}, !.nextBlob = @ + 1,
              !.objectUrlRef = R.nextBlob],
    r, [k |-> "blob", id |-> R.nextBlob])

\* The catch block of initRemuxedPlayer.
initRemuxedCatch(R, r) ==
  finishFailed(onError(Noted(setError(R, "Remux failed"), r, "error")), r)

\* The backend init picks for a stream type.
selectPath(type) ==
  IF needsRemuxing(type) THEN "remux"
  ELSE IF shouldUseNativePlayer(type) THEN "native"
  ELSE "shaka"

\* init after await cleanup().
initBody(R, r) ==
  LET descriptor == detectStreamType(R.inits[r].url)
      type == descriptor.type
      path == selectPath(type)
      L == setError(Noted(R, r, "loading"), "null")
      A == [L EXCEPT !.inits[r].paths = @ \cup {path}]
  IN CASE descriptor = Raised -> initCatch(failed(L, "classify"), r, "Invalid URL")
       [] path = "remux" -> initRemuxedPlayer(A, r)
       [] path = "native" -> initNativePlayer(A, r, [k |-> "url", id |-> r])
       [] OTHER -> initShakaPlayer(A, r)

\* init from the point where its await cleanup(), which stands before the try
\* block, settled.
initAfterCleanup(C, r) ==
  IF C.thrown THEN finishFailed(C, r) ELSE initBody(C, r)

\* init() called by effect run r for url u, until it suspends.
init(R, r, u) ==
  LET A == [R EXCEPT !.inits[r] = [NoTask EXCEPT !.url = u]]
  IN IF A.playerRef # 0
       THEN [cleanup(A) EXCEPT !.inits[r].pc = "cleanup"]
       ELSE initBody(cleanup(A), r)

\* handleCanPlay of init r.
handleCanPlay(R, r, allowed) ==
  finish(autoplay(Noted(R, r, "ready"), allowed), r)

\* handleError of init r rejects; the rejection lands in the catch block of
\* initRemuxedPlayer (remux path) or of init (native path).
handleError(R, r) ==
  IF "remux" \in R.inits[r].paths
    THEN initRemuxedCatch(R, r)
    ELSE initCatch(R, r, "Failed to load media")

\* handleVideoError, the element's onError prop.
handleVideoError(R) ==
  IF R.mounted /\ R.error = "null"
    THEN onError(setStatus(setError(R, "Format not supported"), "error"))
    ELSE R

RECURSIVE dispatch(_, _, _, _)
\* Dispatch a sink event to the listeners init calls registered, in order.
dispatch(R, L, canplay, allowed) ==
  IF L = <<>> THEN R
  ELSE dispatch(IF canplay THEN handleCanPlay(R, Head(L), allowed)
                ELSE handleError(R, Head(L)),
                Tail(L), canplay, allowed)

----------------------------------------------------------------------------
(* The steps *)

Runs == 1..MaxRuns

InFlight(r) ==
  inits[r].pc \notin {"none", "done", "failed"}

\* Nothing of an earlier effect run is still suspended.
Quiet ==
  pending = 0 /\ \A r \in Runs : ~InFlight(r)

\* Engine instances whose error/buffering listeners are registered and that
\* still stream: an instance whose load() was rejected emits nothing more.
Listening ==
  {e \in engines : \E r \in Runs : inits[r].player = e /\ inits[r].pc \in {"load", "done"}}

Init ==
  /\ url = NoUrl
  /\ mounted = TRUE
  /\ requests = 0
  /\ status = "idle"
  /\ error = "null"
  /\ playerRef = 0
  /\ objectUrlRef = 0
  /\ video = NoVideo
  /\ engines = {}
  /\ blobs = {}
  /\ nextEngine = 1
  /\ nextBlob = 1
  /\ pending = 0
  /\ inits = [r \in Runs |-> NoTask]
  /\ ops = <<>>
  /\ lastFailure = [kind |-> "none", calls |-> 0]
  /\ teardownsInRow = 0
  /\ onProgress = 0
  /\ remuxProgress = 0
  /\ reported = NotReported
  /\ nativeHls = FALSE
  /\ autoPlay = FALSE
  /\ classifyUrl = <<>>
  /\ classified = NotCalled
  /\ ServiceIdle
  /\ StoreIdle

\* The initialization effect runs for url u: the url prop changed, or one of
\* the callbacks in its dependency list changed identity (u = url). The
\* previous run's cleanup function is called first, if it returned one.
EffectRun(u) ==
  /\ mounted
  /\ LET r == requests + 1
         R1 == IF url # NoUrl THEN cleanupDetached(State) ELSE State
         k1 == IF url # NoUrl THEN RowStep(teardownsInRow, State) ELSE teardownsInRow
     IN /\ IF u = NoUrl
             THEN /\ Commit(setStatus(cleanupDetached(R1), "idle"))
                  /\ teardownsInRow' = RowStep(k1, R1)
             ELSE /\ Commit(init(R1, r, u))
                  /\ teardownsInRow' = 0
        /\ requests' = r
  /\ url' = u
  /\ UNCHANGED mounted

\* An un-awaited cleanup() resumes after its destroy() settled.
CleanupResume(outcome) ==
  /\ pending > 0
  /\ Commit([cleanupSettled(State, outcome) EXCEPT !.pending = @ - 1])
  /\ teardownsInRow' = 1
  /\ UNCHANGED <<url, mounted, requests>>

\* init r resumes after its await cleanup().
InitResume(r, outcome) ==
  /\ inits[r].pc = "cleanup"
  /\ Commit(initAfterCleanup(cleanupSettled(State, outcome), r))
  /\ teardownsInRow' = 0
  /\ UNCHANGED <<url, mounted, requests>>

\* player.attach(video) of init r resolved.
AttachResolved(r) ==
  /\ inits[r].pc = "attach"
  /\ Commit(initShakaAttached(State, r))
  /\ teardownsInRow' = 0
  /\ UNCHANGED <<url, mounted, requests>>

\* player.load(url) of init r resolved (the instance was not destroyed meanwhile).
LoadResolved(r, allowed) ==
  /\ inits[r].pc = "load"
  /\ inits[r].player \in engines
  /\ allowed \/ (autoPlay /\ video.paused)
  /\ Commit(initShakaLoaded(State, r, allowed))
  /\ teardownsInRow' = 0
  /\ UNCHANGED <<url, mounted, requests>>

\* player.load(url) of init r rejected.
LoadRejected(r) ==
  /\ inits[r].pc = "load"
  /\ Commit(initCatch(failed(State, "load"), r, "Failed to initialize player"))
  /\ teardownsInRow' = 0
  /\ UNCHANGED <<url, mounted, requests>>

\* remuxer.remuxToFmp4 of init r returned a blob.
RemuxResolved(r) ==
  /\ inits[r].pc = "remux"
  /\ Commit(initRemuxedDone(State, r))
  /\ teardownsInRow' = 0
  /\ UNCHANGED <<url, mounted, requests>>

\* remuxer.remuxToFmp4 of init r failed.
RemuxRejected(r) ==
  /\ inits[r].pc = "remux"
  /\ Commit(initRemuxedCatch(failed(State, "remux"), r))
  /\ teardownsInRow' = 0
  /\ UNCHANGED <<url, mounted, requests>>

\* The executor reports progress while the remux job of init r runs: the
\* service calls whatever callback remuxer.onProgress holds.
RemuxProgress(r, tick) ==
  /\ inits[r].pc = "remux"
  /\ onProgress # 0
  /\ Commit(progressCallback(State, tick))
  /\ teardownsInRow' = 0
  /\ UNCHANGED <<url, mounted, requests>>

\* The sink fires canplay for the source it is loading.
SinkCanPlay(allowed) ==
  /\ video.load = "loading"
  /\ allowed \/ (autoPlay /\ video.paused)
  /\ Commit(dispatch([State EXCEPT !.video.load = "playable", !.video.listeners = <<>>],
                     video.listeners, TRUE, allowed))
  /\ teardownsInRow' = 0
  /\ UNCHANGED <<url, mounted, requests>>

\* The sink fires error for its source: the element's onError prop, then the
\* listeners init calls registered.
SinkError ==
  /\ video.load \in {"loading", "playable"}
  /\ Commit(dispatch(handleVideoError(
                       failed([State EXCEPT !.video.load = "failed",
                                            !.video.listeners = <<>>], "sink")),
                     video.listeners, FALSE, TRUE))
  /\ teardownsInRow' = 0
  /\ UNCHANGED <<url, mounted, requests>>

\* handlePlay: the sink starts playing, or plays again after it ended.
SinkPlay ==
  /\ mounted
  /\ (video.load = "playable" /\ video.paused) \/ video.load = "ended"
  /\ Commit(setStatus([State EXCEPT !.video.paused = FALSE, !.video.load = "playable"],
                      "playing"))
  /\ teardownsInRow' = 0
  /\ UNCHANGED <<url, mounted, requests>>

\* handlePause: the sink pauses.
SinkPause ==
  /\ mounted /\ video.load = "playable" /\ ~video.paused
  /\ Commit(setStatus([State EXCEPT !.video.paused = TRUE], "paused"))
  /\ teardownsInRow' = 0
  /\ UNCHANGED <<url, mounted, requests>>

\* handleEnded: playback reaches the end of the media.
SinkEnded ==
  /\ mounted /\ video.load = "playable" /\ ~video.paused
  /\ Commit(setStatus([State EXCEPT !.video.load = "ended"], "ended"))
  /\ teardownsInRow' = 0
  /\ UNCHANGED <<url, mounted, requests>>

\* The engine's error event listener.
EngineError(e) ==
  /\ e \in Listening
  /\ Commit(onError(setStatus(setError(failed(State, "engine"), "Playback error"), "error")))
  /\ teardownsInRow' = 0
  /\ UNCHANGED <<url, mounted, requests>>

\* The engine's buffering event listener.
EngineBuffering(e, buffering) ==
  /\ e \in Listening
  /\ Commit(setStatus(State, IF buffering THEN "buffering" ELSE "ready"))
  /\ teardownsInRow' = 0
  /\ UNCHANGED <<url, mounted, requests>>

\* The caller discards the component: the element leaves the ref, then the
\* effect's cleanup function runs.
Unmount ==
  /\ mounted
  /\ mounted' = FALSE
  /\ LET R == [State EXCEPT !.mounted = FALSE]
     IN IF url # NoUrl
          THEN /\ Commit(cleanupDetached(R))
               /\ teardownsInRow' = RowStep(teardownsInRow, R)
          ELSE /\ Commit(R)
               /\ UNCHANGED teardownsInRow
  /\ UNCHANGED <<url, requests>>

\* What happens between effect runs while the component is mounted.
Step ==
  \/ CleanupResume("resolved")
  \/ \E r \in Runs : InitResume(r, "resolved")
  \/ \E r \in Runs : AttachResolved(r)
  \/ \E r \in Runs, allowed \in BOOLEAN : LoadResolved(r, allowed)
  \/ \E r \in Runs : LoadRejected(r)
  \/ \E r \in Runs : RemuxResolved(r)
  \/ \E r \in Runs : RemuxRejected(r)
  \/ \E allowed \in BOOLEAN : SinkCanPlay(allowed)
  \/ SinkError
  \/ SinkPlay
  \/ SinkPause
  \/ SinkEnded
  \/ \E e \in Runs : EngineError(e)
  \/ \E e \in Runs, b \in BOOLEAN : EngineBuffering(e, b)

\* The caller changes the url prop, or re-renders with new callbacks, at any time.
Next ==
  \/ \E u \in UrlsAt(requests + 1) : requests < MaxRequests /\ EffectRun(u)
  \/ Step

Spec == Init /\ [][Next]_vars

\* The caller awaits each URL change to completion before the next one.
SeqNext ==
  \/ \E u \in SeqUrls \cup {NoUrl} : requests < MaxSeqRequests /\ Quiet /\ EffectRun(u)
  \/ Step

SeqSpec == Init /\ [][SeqNext]_vars

\* The caller may also discard the component at any time.
LifeNext ==
  \/ \E u \in Urls \cup {NoUrl} : requests < MaxRequests /\ EffectRun(u)
  \/ Step
  \/ Unmount

LifeSpec == Init /\ [][LifeNext]_vars

\* The executor also reports the progress of the remux jobs in flight.
ProgressNext ==
  \/ Next
  \/ \E r \in Runs, tick \in Ticks : RemuxProgress(r, tick)

ProgressSpec == Init /\ [][ProgressNext]_vars

----------------------------------------------------------------------------
(* The classifier on its own *)

UrlTokens ==
  {"a", "?", "#", "http://[", ".m3u8", ".M3U8", "format=m3u8", ".mpd", ".ts",
   "format=ts", "FORMAT=TS", ".mp4", ".MP4", ".m4v", ".webm", ".mkv", ".MKV", ".avi"}

\* Every string of at most MaxUrlLen tokens, the empty string included.
TestUrls ==
  UNION {[1..n -> UrlTokens] : n \in 0..MaxUrlLen}

\* The component after its first render without a url, whatever the host.
PlayerIdle ==
  /\ url = NoUrl /\ mounted = TRUE /\ requests = 0 /\ status = "idle"
  /\ error = "null" /\ playerRef = 0 /\ objectUrlRef = 0 /\ video = NoVideo
  /\ engines = {} /\ blobs = {} /\ nextEngine = 1 /\ nextBlob = 1
  /\ pending = 0 /\ inits = [r \in Runs |-> NoTask] /\ ops = <<>>
  /\ lastFailure = [kind |-> "none", calls |-> 0] /\ teardownsInRow = 0
  /\ onProgress = 0 /\ remuxProgress = 0 /\ reported = NotReported

ComponentIdle ==
  /\ PlayerIdle
  /\ nativeHls = FALSE /\ autoPlay = FALSE

\* The rest of the program is idle.
OthersIdle ==
  /\ classifyUrl = <<>>
  /\ classified = NotCalled
  /\ ServiceIdle
  /\ StoreIdle

\* The component on a sink of either class.
SafariInit ==
  /\ PlayerIdle
  /\ nativeHls \in BOOLEAN
  /\ autoPlay = FALSE
  /\ OthersIdle

SafariSpec == SafariInit /\ [][Next]_vars

\* The engine's destroy() may also reject.
TeardownNext ==
  \/ \E u \in Urls \cup {NoUrl} : requests < MaxRequests /\ EffectRun(u)
  \/ Step
  \/ CleanupResume("rejected")
  \/ \E r \in Runs : InitResume(r, "rejected")

TeardownSpec == Init /\ [][TeardownNext]_vars

\* The component with the autoPlay prop set.
AutoplayInit ==
  /\ PlayerIdle
  /\ nativeHls = FALSE
  /\ autoPlay = TRUE
  /\ OthersIdle

AutoplayNext ==
  \/ \E u \in Urls \cup {NoUrl} : requests < MaxRequests /\ EffectRun(u)
  \/ Step

AutoplaySpec == AutoplayInit /\ [][AutoplayNext]_vars

\* The sink fires error for the empty source a cleanup() left it with while
\* the listeners of an init wait on it: the load of an empty src fails.
SinkEmptied ==
  /\ video.load = "empty" /\ video.listeners # <<>>
  /\ Commit(dispatch(handleVideoError(
                       failed([State EXCEPT !.video.load = "failed",
                                            !.video.listeners = <<>>], "sink")),
                     video.listeners, FALSE, TRUE))
  /\ teardownsInRow' = 0
  /\ UNCHANGED <<url, mounted, requests>>

\* The sink answers the load() it was asked for: canplay, or error.
SinkSettles ==
  \/ \E allowed \in BOOLEAN : SinkCanPlay(allowed)
  \/ video.load = "loading" /\ SinkError
  \/ SinkEmptied

SettleNext ==
  \/ \E u \in Urls \cup {NoUrl} : requests < MaxRequests /\ EffectRun(u)
  \/ Step
  \/ SinkEmptied

\* One of the awaits of cleanup and init settles, or the sink answers a load.
Settle ==
  \/ CleanupResume("resolved")
  \/ \E r \in Runs : InitResume(r, "resolved")
  \/ \E r \in Runs : AttachResolved(r)
  \/ \E r \in Runs, allowed \in BOOLEAN : LoadResolved(r, allowed)
  \/ \E r \in Runs : LoadRejected(r)
  \/ \E r \in Runs : RemuxResolved(r)
  \/ \E r \in Runs : RemuxRejected(r)
  \/ SinkSettles

\* Every await settles and the sink answers each load: the awaits of a
\* behaviour are finitely many, so it is enough that one of them settles
\* whenever some are pending.
Settling ==
  WF_vars(Settle)

SettleSpec == Init /\ [][SettleNext]_vars /\ Settling

ClassifyInit ==
  /\ ComponentIdle
  /\ ServiceIdle
  /\ StoreIdle
  /\ classifyUrl \in TestUrls
  /\ classified = NotCalled

\* detectStreamType(classifyUrl) is called.
Classify ==
  /\ classified = NotCalled
  /\ classified' = detectStreamType(classifyUrl)
  /\ UNCHANGED <<url, mounted, requests, status, error, playerRef, objectUrlRef,
                 video, engines, blobs, nextEngine, nextBlob, pending, inits, ops,
                 lastFailure, teardownsInRow, onProgress, remuxProgress, reported,
                 nativeHls, autoPlay, classifyUrl>>
  /\ UNCHANGED svcVars
  /\ UNCHANGED storeVars

ClassifyNext ==
  Classify

ClassifySpec == ClassifyInit /\ [][ClassifyNext]_vars

----------------------------------------------------------------------------
(* The RemuxerService singleton (ffmpeg remuxer service) and its callers *)

Jobs == 1..MaxJobs

Kinds == {"remux", "stream", "info"}

\* The inputFormat argument of a call.
Formats == {"mkv", "avi"}

\* `input.${inputFormat}`
inputName(fmt) ==
  [base |-> "input", ext |-> fmt, index |-> 0]

\* 'output.mp4'
outputName ==
  [base |-> "output", ext |-> "mp4", index |-> 0]

\* `segment_${index padded}.mp4`
segmentName(i) ==
  [base |-> "segment", ext |-> "mp4", index |-> i]

exists(F, name) ==
  \E f \in F : f.name = name

fileAt(F, name) ==
  CHOOSE f \in F : f.name = name

\* ffmpeg.writeFile by job `by` of data that comes from the input of job `from`.
writeFile(F, name, by, from) ==
  {f \in F : f.name # name} \cup {[name |-> name, by |-> by, from |-> from]}

deleteFile(F, name) ==
  {f \in F : f.name # name}

\* load() starting an initialization whenever the executor is not loaded.
loadBranch_NoJoin(isLoaded, isLoading) ==
  IF isLoaded THEN "ready" ELSE "start"

\* load(): return at once when loaded, join the in-flight initialization
\* when loading, start one otherwise.
loadBranch(isLoaded, isLoading) ==
  IF isLoaded THEN "ready"
  ELSE IF isLoading THEN "join"
  ELSE "start"

\* response.status of the range request of getMediaInfo.
Statuses == {206, 200, 404}

\* getMediaInfo failing on a response that is not partial content.
rangeBranch_Strict(code) ==
  IF code = 206 THEN "body" ELSE "fail"

\* getMediaInfo after its range request: the body of a 206 response is the
\* input, anything else makes it fetch the whole source.
rangeBranch(code) ==
  IF code = 206 THEN "body" ELSE "full"

\* The first await after load(): getMediaInfo requests a byte range,
\* the remux calls the whole source.
firstFetch(kind) ==
  IF kind = "info" THEN "range" ELSE "fetch"

\* The awaits of a call in which an executor operation is pending.
ExecutorPcs ==
  {"write", "exec", "read", "delete-input", "delete-output", "delete-seg"}

Ended(j) ==
  jobs[j].pc \in {"done", "failed"}

\* The call returned / raised: only how it ended is kept of it.
returned ==
  [NoJob EXCEPT !.pc = "done"]

raised ==
  [NoJob EXCEPT !.pc = "failed"]

SvcFrame ==
  UNCHANGED <<compVars, classifyUrl, classified, storeVars>>

\* Job j is a call of remuxToFmp4 / remuxStreamingFmp4 / getMediaInfo with
\* input format fmt; it runs up to the await in load().
Call(j, kind, fmt) ==
  /\ jobs[j].pc = "none"
  /\ \A i \in 1..(j - 1) : jobs[i].pc # "none"
  /\ LET branch == loadBranch(loaded, loading)
         J == [NoJob EXCEPT !.kind = kind, !.fmt = fmt]
     IN CASE branch = "ready" ->
               /\ jobs' = [jobs EXCEPT ![j] = [J EXCEPT !.pc = firstFetch(kind)]]
               /\ UNCHANGED <<ffmpeg, loading, loadPromise, doLoads, nextFFmpeg, fs>>
          [] branch = "join" ->
               /\ jobs' = [jobs EXCEPT ![j] = [J EXCEPT !.pc = "load", !.awaits = loadPromise]]
               /\ UNCHANGED <<ffmpeg, loading, loadPromise, doLoads, nextFFmpeg, fs>>
          [] OTHER ->
               /\ nextFFmpeg <= MaxLoads
               /\ loading' = TRUE
               /\ ffmpeg' = nextFFmpeg
               /\ loadPromise' = nextFFmpeg
               /\ doLoads' = doLoads \cup {nextFFmpeg}
               /\ nextFFmpeg' = nextFFmpeg + 1
               /\ fs' = {}
               /\ jobs' = [jobs EXCEPT ![j] = [J EXCEPT !.pc = "load", !.awaits = nextFFmpeg]]
  /\ UNCHANGED <<loaded, live>>
  /\ SvcFrame

\* The _doLoad run of instance i resolved: load() marks the service loaded,
\* and every call awaiting that promise goes on to fetch its input.
DoLoadResolved(i) ==
  /\ i \in doLoads
  /\ doLoads' = doLoads \ {i}
  /\ live' = live \cup {i}
  /\ loaded' = TRUE
  /\ loading' = FALSE
  /\ jobs' = [j \in Jobs |->
               IF jobs[j].pc = "load" /\ jobs[j].awaits = i
                 THEN [jobs[j] EXCEPT !.pc = firstFetch(jobs[j].kind), !.awaits = 0]
                 ELSE jobs[j]]
  /\ UNCHANGED <<ffmpeg, loadPromise, nextFFmpeg, fs>>
  /\ SvcFrame

\* The _doLoad run of instance i rejected: every call awaiting it fails.
DoLoadRejected(i) ==
  /\ i \in doLoads
  /\ doLoads' = doLoads \ {i}
  /\ loading' = FALSE
  /\ jobs' = [j \in Jobs |->
               IF jobs[j].pc = "load" /\ jobs[j].awaits = i THEN raised ELSE jobs[j]]
  /\ UNCHANGED <<ffmpeg, loaded, loadPromise, live, nextFFmpeg, fs>>
  /\ SvcFrame

\* The range request of job j, a getMediaInfo call, was answered with
\* status `code`, and the body was read where it is the input.
RangeResolved(j, code) ==
  /\ jobs[j].pc = "range"
  /\ LET branch == rangeBranch(code)
         J == [jobs[j] EXCEPT !.status = code]
     IN jobs' = [jobs EXCEPT ![j] =
                   CASE branch = "full" -> [J EXCEPT !.pc = "fetch"]
                     [] branch = "body" /\ ffmpeg \in live -> [J EXCEPT !.pc = "write"]
                     [] OTHER -> raised]
  /\ UNCHANGED <<ffmpeg, loaded, loading, loadPromise, doLoads, live, nextFFmpeg, fs>>
  /\ SvcFrame

\* The range request of job j failed (no response).
RangeRejected(j) ==
  /\ jobs[j].pc = "range"
  /\ jobs' = [jobs EXCEPT ![j] = raised]
  /\ UNCHANGED <<ffmpeg, loaded, loading, loadPromise, doLoads, live, nextFFmpeg, fs>>
  /\ SvcFrame

\* The input of job j was fetched; this.ffmpeg.writeFile is called, which
\* throws when this.ffmpeg is null or its worker is not loaded.
FetchResolved(j) ==
  /\ jobs[j].pc = "fetch"
  /\ jobs' = [jobs EXCEPT ![j] = IF ffmpeg \in live THEN [@ EXCEPT !.pc = "write"]
                                  ELSE raised]
  /\ UNCHANGED <<ffmpeg, loaded, loading, loadPromise, doLoads, live, nextFFmpeg, fs>>
  /\ SvcFrame

\* The fetch of job j failed.
FetchRejected(j) ==
  /\ jobs[j].pc = "fetch"
  /\ jobs' = [jobs EXCEPT ![j] = raised]
  /\ UNCHANGED <<ffmpeg, loaded, loading, loadPromise, doLoads, live, nextFFmpeg, fs>>
  /\ SvcFrame

\* writeFile(inputName, inputData) of job j completed; exec is called.
WriteDone(j) ==
  /\ jobs[j].pc = "write"
  /\ fs' = writeFile(fs, inputName(jobs[j].fmt), j, j)
  /\ jobs' = [jobs EXCEPT ![j].pc = "exec"]
  /\ UNCHANGED <<ffmpeg, loaded, loading, loadPromise, doLoads, live, nextFFmpeg>>
  /\ SvcFrame

\* exec of job j ended: "ok" (the run read the input file and wrote its
\* output), "exit" (the run failed, the promise resolved with a non-zero
\* code, which the caller does not look at) or "reject".
ExecDone(j, outcome) ==
  /\ jobs[j].pc = "exec"
  /\ LET in == inputName(jobs[j].fmt)
         kind == jobs[j].kind
     IN /\ outcome = "ok" => (exists(fs, in) /\ kind # "stream")
        /\ CASE kind = "info" ->
                  \* the rejection is caught; the log output is parsed
                  /\ jobs' = [jobs EXCEPT ![j].pc = "delete-input",
                                          ![j].result = IF outcome = "ok"
                                                          THEN fileAt(fs, in).from ELSE 0]
                  /\ fs' = fs
             [] outcome = "reject" ->
                  /\ jobs' = [jobs EXCEPT ![j] = raised]
                  /\ fs' = fs
             [] outcome = "exit" ->
                  /\ jobs' = [jobs EXCEPT ![j].pc = "read"]
                  /\ fs' = fs
             [] OTHER ->
                  /\ jobs' = [jobs EXCEPT ![j].pc = "read"]
                  /\ fs' = writeFile(fs, outputName, j, fileAt(fs, in).from)
  /\ UNCHANGED <<ffmpeg, loaded, loading, loadPromise, doLoads, live, nextFFmpeg>>
  /\ SvcFrame

RECURSIVE writeSegments(_, _, _, _)
writeSegments(F, n, by, from) ==
  IF n = 0 THEN F
  ELSE writeSegments(writeFile(F, segmentName(n - 1), by, from), n - 1, by, from)

\* The segmented exec of job j wrote n segments.
ExecSegmented(j, n) ==
  /\ jobs[j].pc = "exec" /\ jobs[j].kind = "stream"
  /\ exists(fs, inputName(jobs[j].fmt))
  /\ fs' = writeSegments(fs, n, j, fileAt(fs, inputName(jobs[j].fmt)).from)
  /\ jobs' = [jobs EXCEPT ![j].pc = "read", ![j].produced = n]
  /\ UNCHANGED <<ffmpeg, loaded, loading, loadPromise, doLoads, live, nextFFmpeg>>
  /\ SvcFrame

\* readFile(outputName) of remuxToFmp4 ended: it throws when there is no such
\* file; otherwise the call goes on to delete its input.
ReadOutput(j) ==
  /\ jobs[j].pc = "read" /\ jobs[j].kind = "remux"
  /\ jobs' = IF exists(fs, outputName)
               THEN [jobs EXCEPT ![j].pc = "delete-input",
                                 ![j].result = fileAt(fs, outputName).from]
               ELSE [jobs EXCEPT ![j] = raised]
  /\ UNCHANGED <<ffmpeg, loaded, loading, loadPromise, doLoads, live, nextFFmpeg, fs>>
  /\ SvcFrame

\* readFile(segmentName) in the loop of remuxStreamingFmp4 ended. No such
\* file, or a throw of the chunk callback: the catch leaves the loop and the
\* input is deleted. Otherwise the segment is deleted next.
ReadSegment(j, callbackThrows) ==
  /\ jobs[j].pc = "read" /\ jobs[j].kind = "stream"
  /\ LET seg == segmentName(jobs[j].index)
     IN IF ~exists(fs, seg)
          THEN /\ ~callbackThrows
               /\ jobs' = [jobs EXCEPT ![j].pc = "delete-input"]
          ELSE jobs' = [jobs EXCEPT ![j].result = fileAt(fs, seg).from,
                                    ![j].chunks = Append(@, jobs[j].index),
                                    ![j].pc = IF callbackThrows THEN "delete-input"
                                              ELSE "delete-seg"]
  /\ UNCHANGED <<ffmpeg, loaded, loading, loadPromise, doLoads, live, nextFFmpeg, fs>>
  /\ SvcFrame

\* The file job j is deleting.
deleteTarget(j) ==
  CASE jobs[j].pc = "delete-input" -> inputName(jobs[j].fmt)
    [] jobs[j].pc = "delete-output" -> outputName
    [] OTHER -> segmentName(jobs[j].index)

\* A deleteFile of job j ended; it throws when there is no such file, which
\* only the loop of remuxStreamingFmp4 catches.
DeleteDone(j) ==
  /\ jobs[j].pc \in {"delete-input", "delete-output", "delete-seg"}
  /\ LET pc == jobs[j].pc
         name == deleteTarget(j)
     IN IF ~exists(fs, name)
          THEN /\ fs' = fs
               /\ jobs' = [jobs EXCEPT ![j] = IF pc = "delete-seg"
                                                THEN [@ EXCEPT !.pc = "delete-input"]
                                                ELSE raised]
          ELSE /\ fs' = deleteFile(fs, name)
               /\ jobs' =
                    CASE pc = "delete-seg" ->
                           [jobs EXCEPT ![j].pc = "read", ![j].index = @ + 1]
                      [] pc = "delete-input" /\ jobs[j].kind = "remux" ->
                           [jobs EXCEPT ![j].pc = "delete-output"]
                      [] OTHER -> [jobs EXCEPT ![j] = returned]
  /\ UNCHANGED <<ffmpeg, loaded, loading, loadPromise, doLoads, live, nextFFmpeg>>
  /\ SvcFrame

\* terminate(): the worker goes, with its files and its pending operations;
\* every call awaiting one fails.
Terminate ==
  /\ ffmpeg # 0
  /\ ffmpeg' = 0
  /\ loaded' = FALSE
  /\ live' = live \ {ffmpeg}
  /\ fs' = {}
  /\ jobs' = [j \in Jobs |->
               IF jobs[j].pc \in ExecutorPcs THEN raised ELSE jobs[j]]
  /\ UNCHANGED <<loading, loadPromise, doLoads, nextFFmpeg>>
  /\ SvcFrame

RemuxInit ==
  /\ ComponentIdle
  /\ classifyUrl = <<>>
  /\ classified = NotCalled
  /\ ServiceIdle
  /\ StoreIdle

RemuxNext ==
  \/ \E j \in Jobs, kind \in Kinds, fmt \in Formats : Call(j, kind, fmt)
  \/ \E i \in 1..MaxLoads : DoLoadResolved(i)
  \/ \E i \in 1..MaxLoads : DoLoadRejected(i)
  \/ \E j \in Jobs, code \in Statuses : RangeResolved(j, code)
  \/ \E j \in Jobs : RangeRejected(j)
  \/ \E j \in Jobs : FetchResolved(j)
  \/ \E j \in Jobs : FetchRejected(j)
  \/ \E j \in Jobs : WriteDone(j)
  \/ \E j \in Jobs, outcome \in {"ok", "exit", "reject"} : ExecDone(j, outcome)
  \/ \E j \in Jobs, n \in 1..MaxSegments : ExecSegmented(j, n)
  \/ \E j \in Jobs : ReadOutput(j)
  \/ \E j \in Jobs, callbackThrows \in BOOLEAN : ReadSegment(j, callbackThrows)
  \/ \E j \in Jobs : DeleteDone(j)
  \/ Terminate

RemuxSpec == RemuxInit /\ [][RemuxNext]_vars

\* Callers that only probe: getMediaInfo calls, each of which starts with
\* load(), interleaved with terminate().
LoadNext ==
  \/ \E j \in Jobs, fmt \in Formats : Call(j, "info", fmt)
  \/ \E i \in 1..MaxLoads : DoLoadResolved(i)
  \/ \E i \in 1..MaxLoads : DoLoadRejected(i)
  \/ \E j \in Jobs, code \in Statuses : RangeResolved(j, code)
  \/ \E j \in Jobs : RangeRejected(j)
  \/ \E j \in Jobs : FetchResolved(j)
  \/ \E j \in Jobs : FetchRejected(j)
  \/ \E j \in Jobs : WriteDone(j)
  \/ \E j \in Jobs, outcome \in {"ok", "exit", "reject"} : ExecDone(j, outcome)
  \/ \E j \in Jobs : DeleteDone(j)
  \/ Terminate

LoadSpec == RemuxInit /\ [][LoadNext]_vars

----------------------------------------------------------------------------
(* The store on its own *)

\* Nothing but the store moves.
StoreFrame ==
  UNCHANGED <<compVars, svcVars, classifyUrl, classified, demo>>

\* A history with one entry, saved at time 0.
OneEntry ==
  [u \in {"u1"} |-> [position |-> 30, timestamp |-> 0]]

\* Actions of every kind, of a kind outside ActionTypes, and with null payloads.
ReducerActions ==
  {Action(ActionTypes.SET_URL, [value |-> "u1"]),
   Action(ActionTypes.SET_PLAYING, [value |-> TRUE]),
   Action(ActionTypes.SET_PLAYING, [value |-> FALSE]),
   Action(ActionTypes.SET_TIME, [value |-> 30]),
   Action(ActionTypes.SET_DURATION, [value |-> 60]),
   Action(ActionTypes.SET_BUFFERED, [value |-> 10]),
   Action(ActionTypes.SET_VOLUME, [value |-> 0]),
   Action(ActionTypes.SET_MUTED, [value |-> TRUE]),
   Action(ActionTypes.SET_PLAYBACK_RATE, [value |-> 2]),
   Action(ActionTypes.SET_STREAM_INFO, [type |-> "hls", category |-> "live", isLive |-> TRUE]),
   Action(ActionTypes.SET_STREAM_INFO, [type |-> "mp4", category |-> "native"]),
   Action(ActionTypes.SET_STREAM_INFO, NullPayload),
   Action(ActionTypes.SET_MEDIA_INFO, [videoCodec |-> "h264", audioCodec |-> "aac"]),
   Action(ActionTypes.SET_MEDIA_INFO, NullPayload),
   Action(ActionTypes.SET_STATUS, [value |-> "ready"]),
   Action(ActionTypes.SET_ERROR, [value |-> "failed"]),
   Action(ActionTypes.SET_REMUX_PROGRESS, [value |-> 50]),
   Action(ActionTypes.LOAD_HISTORY, [value |-> OneEntry]),
   Action(ActionTypes.RESET, NullPayload),
   Action("SEEK", [value |-> 30]),
   Action("SEEK", NullPayload)}
  \cup {Action(ActionTypes.SAVE_POSITION, [url |-> u, position |-> 30]) : u \in StoreUrls}

\* The reducer is applied to action a.
Reduce(a) ==
  /\ provider.dispatches < MaxReductions
  /\ LET next == playerReducer(store, a, now)
     IN /\ store' = IF next = ReducerRaised THEN store ELSE next
        /\ provider' = [provider EXCEPT !.dispatches = @ + 1,
                                        !.threw = (next = ReducerRaised),
                                        !.last = a.type]
  /\ UNCHANGED <<localStorage, now>>
  /\ StoreFrame

ReducerInit ==
  /\ ComponentIdle
  /\ ServiceIdle
  /\ StoreIdle
  /\ classifyUrl = <<>>
  /\ classified = NotCalled

ReducerNext ==
  \E a \in ReducerActions : Reduce(a)

ReducerSpec == ReducerInit /\ [][ReducerNext]_vars

\* What localStorage may hold under persistKey before the first store is created.
InitialItems ==
  {NoItem, BadItem, ObjectItem, stringify(EmptyHistory), stringify(OneEntry)}

\* What the callers of the action creators dispatch.
CreatorActions ==
  {Action(ActionTypes.SAVE_POSITION, [url |-> u, position |-> p]) :
     u \in StoreUrls, p \in Positions}
  \cup {Action(ActionTypes.SET_URL, [value |-> "u1"]),
        Action(ActionTypes.SET_STATUS, [value |-> "ready"]),
        Action(ActionTypes.RESET, NullPayload)}

\* A PlayerProvider mounts. Its effects run in one flush, on the state of the
\* first render: the load effect reads the item and dispatches LOAD_HISTORY,
\* the save effect writes the history of the render, which is the initial
\* one. The dispatched action is reduced for the next render, whose save
\* effect is then due.
Create ==
  /\ ~provider.alive
  /\ provider.creates < MaxStores
  /\ LET payload == loadedHistory(localStorage)
         loads == ~isNullish(payload)
     IN /\ store' = IF loads
                      THEN playerReducer(initialState,
                                         Action(ActionTypes.LOAD_HISTORY, payload), now)
                      ELSE initialState
        /\ provider' = [provider EXCEPT !.alive = TRUE, !.dirty = loads,
                                        !.creates = @ + 1, !.threw = FALSE,
                                        !.last = "none"]
  /\ localStorage' = stringify(initialState.history)
  /\ UNCHANGED now
  /\ StoreFrame

\* The save effect runs after a render in which state.history changed identity.
WriteBack ==
  /\ provider.alive /\ provider.dirty
  /\ localStorage' = stringify(store.history)
  /\ provider' = [provider EXCEPT !.dirty = FALSE, !.threw = FALSE, !.last = "none"]
  /\ UNCHANGED <<store, now>>
  /\ StoreFrame

\* An action creator dispatches a. A reducer that throws takes the provider down.
Dispatch(a) ==
  /\ provider.alive
  /\ provider.dispatches < MaxDispatches
  /\ LET next == playerReducer(store, a, now)
         ok == next # ReducerRaised
     IN /\ store' = IF ok THEN next ELSE initialState
        /\ provider' =
             [provider EXCEPT !.alive = ok,
                              !.dirty = ok /\ (@ \/ a.type = ActionTypes.SAVE_POSITION),
                              !.dispatches = @ + 1,
                              !.threw = ~ok,
                              !.last = a.type]
  /\ UNCHANGED <<localStorage, now>>
  /\ StoreFrame

\* The provider unmounts; a save effect that was due does not run.
Destroy ==
  /\ provider.alive
  /\ store' = initialState
  /\ provider' = [provider EXCEPT !.alive = FALSE, !.dirty = FALSE, !.threw = FALSE,
                                  !.last = "none"]
  /\ UNCHANGED <<localStorage, now>>
  /\ StoreFrame

\* A day passes.
Tick ==
  /\ now < MaxClock
  /\ now' = now + 1
  /\ provider' = [provider EXCEPT !.threw = FALSE, !.last = "none"]
  /\ UNCHANGED <<store, localStorage>>
  /\ StoreFrame

HistoryInit ==
  /\ ComponentIdle
  /\ ServiceIdle
  /\ classifyUrl = <<>>
  /\ classified = NotCalled
  /\ demo = DemoIdle
  /\ store = initialState
  /\ localStorage \in InitialItems
  /\ now = 0
  /\ provider = [alive |-> FALSE, dirty |-> FALSE, creates |-> 0, dispatches |-> 0,
                 threw |-> FALSE, last |-> "none"]

HistoryNext ==
  \/ Create
  \/ WriteBack
  \/ \E a \in CreatorActions : Dispatch(a)
  \/ Destroy
  \/ Tick

HistorySpec == HistoryInit /\ [][HistoryNext]_vars

----------------------------------------------------------------------------
(* PlayerDemo: saving the position while playing *)

\* Nothing but PlayerDemo and the store behind usePlayer moves.
DemoFrame ==
  UNCHANGED <<compVars, svcVars, classifyUrl, classified>>

\* Math.floor(currentTime), the time being in half seconds.
floorSeconds(t) ==
  t \div 2

\* activeUrl && currentTime > 0 && Math.floor(currentTime) % 5 === 0
savesAt(activeUrl, t) ==
  activeUrl # "" /\ t > 0 /\ floorSeconds(t) % 5 = 0

\* handleLoad / handleSampleClick: a URL becomes the active one and the
\* player starts it from the beginning.
HandleLoad(u) ==
  /\ provider.alive
  /\ demo.activeUrl # u
  /\ demo' = [activeUrl |-> u, currentTime |-> 0, saved |-> <<>>]
  /\ UNCHANGED <<store, localStorage, now, provider>>
  /\ DemoFrame

\* The sink fires timeupdate half a second of playback later; UniversalPlayer
\* hands it to handleTimeUpdate, which saves the position through the store.
TimeUpdate ==
  /\ provider.alive
  /\ demo.activeUrl # ""
  /\ demo.currentTime < MaxHalfSeconds
  /\ LET t == demo.currentTime + 1
         a == Action(ActionTypes.SAVE_POSITION, [url |-> demo.activeUrl, position |-> t])
     IN IF savesAt(demo.activeUrl, t)
          THEN /\ demo' = [demo EXCEPT !.currentTime = t, !.saved = Append(@, t)]
               /\ store' = playerReducer(store, a, now)
               /\ provider' = [provider EXCEPT !.dirty = TRUE, !.threw = FALSE,
                                               !.last = a.type]
          ELSE /\ demo' = [demo EXCEPT !.currentTime = t]
               /\ UNCHANGED <<store, provider>>
  /\ UNCHANGED <<localStorage, now>>
  /\ DemoFrame

\* PlayerDemo inside a mounted PlayerProvider whose effects have run.
DemoInit ==
  /\ ComponentIdle
  /\ ServiceIdle
  /\ classifyUrl = <<>>
  /\ classified = NotCalled
  /\ demo = DemoIdle
  /\ store = initialState
  /\ localStorage = stringify(EmptyHistory)
  /\ now = 0
  /\ provider = [alive |-> TRUE, dirty |-> FALSE, creates |-> 1, dispatches |-> 0,
                 threw |-> FALSE, last |-> "none"]

DemoNext ==
  \/ \E u \in StoreUrls : HandleLoad(u)
  \/ TimeUpdate
  \/ WriteBack

DemoSpec == DemoInit /\ [][DemoNext]_vars

----------------------------------------------------------------------------
(* Claims *)

TypeOf(r) ==
  detectStreamType(inits[r].url).type

Dispatched(r) ==
  inits[r].pc \notin {"none", "cleanup"}

\* C1: every init that got past its cleanup started exactly one backend path,
\* the one of its stream kind: remux for MKV/AVI, native for MP4/WEBM, the
\* adaptive engine for HLS/DASH/MPEG_TS; only the adaptive path constructs an
\* engine instance and only the remux path waits for a remux.
C1_BackendSelection ==
  \A r \in Runs : Dispatched(r) =>
    /\ Cardinality(inits[r].paths) = 1
    /\ LET type == TypeOf(r)
       IN /\ type \in {StreamType.MKV, StreamType.AVI} => inits[r].paths = {"remux"}
          /\ type \in {StreamType.MP4, StreamType.WEBM} => inits[r].paths = {"native"}
          /\ type \in {StreamType.HLS, StreamType.DASH, StreamType.MPEG_TS}
               => inits[r].paths = {"shaka"}
    /\ inits[r].player # 0 => inits[r].paths = {"shaka"}
    /\ inits[r].pc \in {"attach", "load"} => inits[r].paths = {"shaka"}
    /\ inits[r].pc = "remux" => inits[r].paths = {"remux"}
    /\ inits[r].pc = "canplay" => inits[r].paths \in {{"native"}, {"remux"}}

\* An MPEG-TS URL is loading in the engine while a later native URL waits for canplay.
C1_Witness ==
  /\ TypeOf(1) = StreamType.MPEG_TS /\ inits[1].pc = "load"
  /\ inits[2].pc = "canplay" /\ inits[2].paths = {"native"}

\* C2: an init for a URL of kind UNKNOWN takes the native path and constructs
\* no engine instance.
C2_UnknownIsNative ==
  \A r \in Runs : (Dispatched(r) /\ TypeOf(r) = StreamType.UNKNOWN) =>
    inits[r].paths = {"native"} /\ inits[r].player = 0

\* C3: an init on the remux path constructs no engine instance; when its remux
\* returns, the blob's object URL becomes the sink's source with the init's
\* canplay listener on it; and when the sink then fires canplay the status
\* becomes ready, the init having set loading, then remuxing, before.
C3_RemuxThenNative ==
  [][\A r \in Runs : "remux" \in inits[r].paths =>
       /\ inits[r].player = 0 /\ inits'[r].player = 0
       /\ (inits[r].pc = "remux" /\ inits'[r].pc = "canplay") =>
            /\ video'.src = [k |-> "blob", id |-> objectUrlRef']
            /\ objectUrlRef' \in blobs' \ blobs
            /\ includes(video'.listeners, r)
            /\ engines' = engines
       /\ (inits[r].pc = "canplay" /\ inits'[r].pc = "done" /\ video'.load = "playable") =>
            /\ inits[r].hist = <<"loading", "remuxing">>
            /\ status' = "ready"
            /\ engines' = engines]_vars

\* A single remux session is ready on its blob, and no engine was ever constructed.
C3_Witness ==
  /\ requests = 1 /\ inits[1].paths = {"remux"} /\ inits[1].pc = "done"
  /\ status = "ready" /\ video.src = [k |-> "blob", id |-> objectUrlRef]
  /\ video.load = "playable" /\ nextEngine = 1

\* The url prop had a different value at each effect run so far.
EveryRunChangedUrl ==
  \A r \in 2..requests : inits[r].url # inits[r - 1].url

\* C4: when every effect run was a change of URL made with nothing of the
\* earlier runs in flight, at most one engine instance is live.
C4_AtMostOneEngine ==
  EveryRunChangedUrl => Cardinality(engines) <= 1

\* C5: while a superseded init is still suspended, at most one engine instance
\* is live, and it is the tracked one or the one an init is attaching.
C5_SupersededTornDown ==
  (\E r \in Runs : r < requests /\ InFlight(r)) =>
    /\ Cardinality(engines) <= 1
    /\ \A e \in engines :
         e = playerRef \/ \E r \in Runs : inits[r].pc = "attach" /\ inits[r].player = e

\* C6: no two inits for the same URL are in flight at once.
C6_NoConcurrentInit ==
  \A r1, r2 \in Runs :
    (r1 # r2 /\ InFlight(r1) /\ InFlight(r2)) => inits[r1].url # inits[r2].url

\* C7: a step in which a backend initialization fails leaves the status at
\* error with a message and calls onError exactly once.
C7_ErrorOnce ==
  lastFailure.kind # "none" =>
    lastFailure.calls = 1 /\ status = "error" /\ error # "null"

\* C8: once the status is error or ended, no sink or engine event changes the
\* status or clears the message.
C8_Terminal ==
  [][(/\ status \in {"error", "ended"}
      /\ \/ (\E allowed \in BOOLEAN : SinkCanPlay(allowed)) \/ SinkPlay \/ SinkPause \/ SinkEnded
         \/ \E e \in Runs, b \in BOOLEAN : EngineBuffering(e, b))
     => (status' = status /\ error' = error)]_vars

C10_OneObjectUrl ==
  Cardinality(blobs) <= 1 /\ \A b \in blobs : b = objectUrlRef

\* C11: when the remux of a superseded init completes or fails, the sink, the
\* tracked object URL, the status and the error message stay as they were and
\* no onError call is made.
C11_SupersededRemuxDiscarded ==
  [][\A r \in Runs :
       (r < requests /\ inits[r].pc = "remux" /\ inits'[r].pc # "remux") =>
         /\ UNCHANGED <<video, objectUrlRef, status, error>>
         /\ lastFailure'.calls = 0]_vars

\* C12: a progress report that changes the remux progress comes from the job
\* of the current session, the init of the last effect run.
C12_ProgressFromOwnJob ==
  [][\A r \in Runs, tick \in Ticks :
       (RemuxProgress(r, tick) /\ remuxProgress' # remuxProgress) => r = requests]_vars

\* C13: after the component was unmounted, once no init and no cleanup() is
\* suspended any more, no engine instance is live, no object URL is
\* unrevoked and the sink has no source.
C13_UnmountReleasesAll ==
  (~mounted /\ Quiet) => (engines = {} /\ blobs = {} /\ video.src = NoSrc)

Returned ==
  classified \notin {NotCalled, Raised}

\* C14: a returned descriptor has category REMUX iff its kind is MKV or AVI,
\* LIVE iff its kind is HLS, DASH or MPEG_TS, and NATIVE otherwise; and
\* needsRemuxing(kind) is true exactly when the category is REMUX.
C14_CategoryMatchesKind ==
  Returned =>
    LET kind == classified.type
        category == classified.category
    IN /\ category = StreamCategory.REMUX <=> kind \in {StreamType.MKV, StreamType.AVI}
       /\ category = StreamCategory.LIVE
            <=> kind \in {StreamType.HLS, StreamType.DASH, StreamType.MPEG_TS}
       /\ category \in {StreamCategory.REMUX, StreamCategory.LIVE, StreamCategory.NATIVE}
       /\ needsRemuxing(kind) <=> category = StreamCategory.REMUX

\* An AVI URL was classified.
C14_Witness ==
  Returned /\ classified.type = StreamType.AVI /\ Len(classifyUrl) = MaxUrlLen

\* C15: detectStreamType never raises; for a string that does not parse as a
\* URL it returns UNKNOWN/NATIVE.
C15_NeverRaises ==
  /\ classified # Raised
  /\ (classified # NotCalled /\ ~parses(classifyUrl)) =>
       classified = Descriptor(StreamType.UNKNOWN, StreamCategory.NATIVE)

\* The string has the token t (in any case) somewhere.
Has(u, t) ==
  \E i \in 1..Len(u) : LowerTok(u[i]) = t

\* The path of the string, the part before any "?" or "#", ends in the
\* token t (in any case).
PathEnds(u, t) ==
  \E i \in 1..Len(u) :
    /\ LowerTok(u[i]) = t
    /\ \A j \in 1..i : u[j] \notin {"?", "#"}
    /\ i = Len(u) \/ u[i + 1] \in {"?", "#"}

\* The string carries a marker of an adaptive kind.
Marked(u) ==
  Has(u, ".m3u8") \/ Has(u, "format=m3u8") \/ Has(u, ".mpd") \/ Has(u, "format=ts")

\* C16 as stated: a path ending in .mkv or .avi gives REMUX, one ending in
\* .mp4, .m4v or .webm gives NATIVE, one ending in .m3u8 or .mpd gives LIVE,
\* whatever the query string is.
C16_ExtensionDecidesCategory ==
  Returned =>
    /\ (PathEnds(classifyUrl, ".mkv") \/ PathEnds(classifyUrl, ".avi"))
         => classified.category = StreamCategory.REMUX
    /\ (PathEnds(classifyUrl, ".mp4") \/ PathEnds(classifyUrl, ".m4v")
          \/ PathEnds(classifyUrl, ".webm"))
         => classified.category = StreamCategory.NATIVE
    /\ (PathEnds(classifyUrl, ".m3u8") \/ PathEnds(classifyUrl, ".mpd"))
         => classified.category = StreamCategory.LIVE

\* C16, amended: the same, for the REMUX and NATIVE extensions only when the
\* string carries no marker of an adaptive kind (.m3u8, format=m3u8, .mpd,
\* format=ts) anywhere, the query string included.
C16_ExtensionDecidesCategoryUnlessMarked ==
  Returned =>
    /\ (~Marked(classifyUrl)
          /\ (PathEnds(classifyUrl, ".mkv") \/ PathEnds(classifyUrl, ".avi")))
         => classified.category = StreamCategory.REMUX
    /\ (~Marked(classifyUrl)
          /\ (PathEnds(classifyUrl, ".mp4") \/ PathEnds(classifyUrl, ".m4v")
                \/ PathEnds(classifyUrl, ".webm")))
         => classified.category = StreamCategory.NATIVE
    /\ (PathEnds(classifyUrl, ".m3u8") \/ PathEnds(classifyUrl, ".mpd"))
         => classified.category = StreamCategory.LIVE

\* An upper-case .MKV path with a query string was classified as REMUX.
C16_Witness ==
  /\ Returned /\ classified.category = StreamCategory.REMUX
  /\ Len(classifyUrl) = 3 /\ classifyUrl[2] = ".MKV" /\ classifyUrl[3] = "?"

\* The kind the first matching rule gives, rules taken in the stated order.
RefKind(u) ==
  LET matches == << Has(u, ".m3u8") \/ Has(u, "format=m3u8"),
                    Has(u, ".mpd"),
                    PathEnds(u, ".ts") \/ Has(u, "format=ts"),
                    PathEnds(u, ".mp4") \/ PathEnds(u, ".m4v"),
                    PathEnds(u, ".webm"),
                    PathEnds(u, ".mkv"),
                    PathEnds(u, ".avi"),
                    TRUE >>
      kinds == << StreamType.HLS, StreamType.DASH, StreamType.MPEG_TS, StreamType.MP4,
                  StreamType.WEBM, StreamType.MKV, StreamType.AVI, StreamType.UNKNOWN >>
  IN kinds[CHOOSE i \in 1..8 : matches[i] /\ \A j \in 1..(i - 1) : ~matches[j]]

\* C17: the kind detectStreamType returns is the kind of the first matching
\* rule of the reference order.
C17_FirstMatchWins ==
  Returned => classified.type = RefKind(classifyUrl)

\* A string matching the MKV rule and the earlier MPEG-TS rule got MPEG_TS.
C17_Witness ==
  /\ Returned /\ classified.type = StreamType.MPEG_TS
  /\ PathEnds(classifyUrl, ".mkv") /\ Has(classifyUrl, "format=ts")

\* C18: at most one executor initialization is in flight, none is in flight
\* while the service is loaded, every call waiting in load() waits for the
\* one in flight, and a call has an executor operation pending only on a
\* loaded executor.
C18_SingleInitialization ==
  /\ Cardinality(doLoads) <= 1
  /\ loading <=> doLoads # {}
  /\ loaded => doLoads = {}
  /\ \A j \in Jobs : jobs[j].pc = "load" => jobs[j].awaits \in doLoads
  /\ \A j \in Jobs : jobs[j].pc \in ExecutorPcs => ffmpeg \in live

\* Two calls wait for the one initialization that was started.
C18_Witness ==
  /\ jobs[1].pc = "load" /\ jobs[2].pc = "load"
  /\ jobs[1].awaits = jobs[2].awaits /\ nextFFmpeg = 2

\* C19: after a call returned or raised, no file it wrote is left in the
\* virtual filesystem.
C19_FilesDeleted ==
  \A j \in Jobs : Ended(j) => \A f \in fs : f.by # j

\* C20: every file in the virtual filesystem holds data derived from the
\* input of the call that wrote it, and what a call read back is derived
\* from its own input.
C20_SessionScopedFiles ==
  /\ \A f \in fs : f.from = f.by
  /\ \A j \in Jobs : jobs[j].result \in {0, j}

\* C21: a probe first requests a byte range of its source; when the answer
\* is partial content (206) its body is the input, and on any other status
\* the probe does not fail but goes on to fetch the whole source, which
\* then is the input it writes, unless that fetch itself fails.
C21_ProbeFallsBackToFullFetch ==
  [][\A j \in Jobs :
       /\ (jobs[j].pc \in {"none", "load"} /\ jobs'[j].kind = "info"
             /\ jobs'[j].pc \notin {"none", "load", "failed"})
            => jobs'[j].pc = "range"
       /\ \A code \in Statuses : RangeResolved(j, code)
            => IF code = 206 THEN jobs'[j].pc = (IF ffmpeg \in live THEN "write" ELSE "failed")
               ELSE jobs'[j].pc = "fetch" /\ jobs'[j].status = code
       /\ (jobs[j].kind = "info" /\ jobs[j].pc = "fetch" /\ jobs'[j].pc # "fetch")
            => (jobs[j].status \notin {0, 206} /\ jobs'[j].pc \in {"write", "failed"})]_vars

\* A probe answered with 200 has its whole source written and under analysis.
C21_Witness ==
  \E j \in Jobs : jobs[j].kind = "info" /\ jobs[j].pc = "exec" /\ jobs[j].status = 200

\* C22: getSavedPosition(url) returns the position of the url's entry when
\* the entry's timestamp is less than 7 days old, and 0 when it is 7 days old
\* or older or when there is no entry; and right after savePosition(url, t)
\* it returns t.
C22_SavedPositionWithinWeek ==
  /\ [](provider.alive =>
         \A u \in StoreUrls :
           LET position == getSavedPosition(store.history, u, now)
           IN IF u \notin DOMAIN store.history THEN position = 0
              ELSE IF now - store.history[u].timestamp < Week
                THEN position = store.history[u].position
              ELSE position = 0)
  /\ [][\A a \in CreatorActions :
          (a.type = ActionTypes.SAVE_POSITION /\ Dispatch(a))
            => getSavedPosition(store'.history, a.payload.url, now') = a.payload.position]_vars

\* A position saved through savePosition is exactly 7 days old.
C22_Witness ==
  /\ provider.alive
  /\ "u2" \in DOMAIN store.history
  /\ now - store.history["u2"].timestamp = Week

\* The fields of the state other than the history.
PlaybackFields ==
  DOMAIN initialState \ {"history"}

\* C23: reset returns every playback field to its initial value and leaves
\* the history mapping as it was.
C23_ResetKeepsHistory ==
  [][Reduce(Action(ActionTypes.RESET, NullPayload)) =>
       /\ \A f \in PlaybackFields : store'[f] = initialState[f]
       /\ store'.history = store.history]_vars

\* A reset was applied to a state whose history has an entry.
C23_Witness ==
  /\ provider.last = ActionTypes.RESET
  /\ provider.dispatches = MaxReductions
  /\ store.history # EmptyHistory
  /\ \A f \in PlaybackFields : store[f] = initialState[f]

\* C24: the reducer is pure and total: no call of it raises, and its result
\* depends on the state and the action only.
C24_ReducerPureAndTotal ==
  /\ ~provider.threw
  /\ \A a \in ReducerActions :
       playerReducer(store, a, now) = playerReducer(store, a, now + 1)

C26_PersistenceMirrorsMemory ==
  /\ []((provider.alive /\ ~provider.dirty) => localStorage = stringify(store.history))
  /\ [][(Create /\ localStorage.k = "history" /\ localStorage.history # EmptyHistory)
          => localStorage' = localStorage]_vars

\* C27: on a sink that plays HLS by itself an HLS URL takes the native path
\* and no engine instance is constructed for it; on any other sink HLS and
\* DASH take the adaptive-engine path.
C27_NativeHlsOnCapableSink ==
  \A r \in Runs : Dispatched(r) =>
    LET type == TypeOf(r)
    IN /\ (type = StreamType.HLS /\ nativeHls)
            => (inits[r].paths = {"native"} /\ inits[r].player = 0)
       /\ (type \in {StreamType.HLS, StreamType.DASH} /\ ~nativeHls)
            => inits[r].paths = {"shaka"}

\* C28: a teardown stops playback on the sink first, then destroys the engine
\* instance, then revokes the object URL, then clears the sink's source and
\* makes it drop its buffered media: among the operations of a step, a destroy
\* comes right after a pause, a revoke after a pause or a destroy, and a
\* source is cleared right before the sink's load.
C28_TeardownOrder ==
  \A j \in DOMAIN ops :
    /\ ops[j] = "destroy" => (j > 1 /\ ops[j - 1] = "pause")
    /\ ops[j] = "revoke" => (j > 1 /\ ops[j - 1] \in {"pause", "destroy"})
    /\ ops[j] = "src" => (j < Len(ops) /\ ops[j + 1] = "load")

\* C29: when destroy() rejects during a teardown, the teardown still drops
\* its reference to the instance, revokes the object URL and clears the
\* sink; the status does not become error, onError is not called, and an
\* init that awaited the teardown goes on to start its backend.
C29_DestroyFailureSwallowed ==
  [][/\ CleanupResume("rejected")
          => /\ playerRef' = 0 /\ objectUrlRef' = 0 /\ video'.src = NoSrc
             /\ (objectUrlRef # 0 => objectUrlRef \notin blobs')
             /\ status' = status /\ error' = error /\ lastFailure'.calls = 0
     /\ \A r \in Runs : InitResume(r, "rejected")
          => /\ playerRef' = 0 /\ objectUrlRef' = 0
             /\ (objectUrlRef # 0 => objectUrlRef \notin blobs')
             /\ video'.src \in {NoSrc, [k |-> "url", id |-> r]}
             /\ status' \in {"loading", "remuxing"} /\ lastFailure'.calls = 0
             /\ inits'[r].pc \in {"attach", "canplay", "remux"}]_vars

\* A destroy() rejected in the teardown an init awaited, and the init went on.
C29_Witness ==
  /\ \E j \in DOMAIN ops : ops[j] = "warn"
  /\ \E r \in Runs : inits[r].pc \in {"attach", "canplay", "remux"} /\ r = requests

StatedStatuses ==
  {"idle", "loading", "ready", "remuxing", "playing", "paused", "ended", "error"}

\* The edges of the stated machine; playback may also end without a pause.
StatedEdges ==
  {<<"idle", "loading">>, <<"loading", "ready">>, <<"loading", "remuxing">>,
   <<"remuxing", "ready">>, <<"ready", "playing">>, <<"playing", "paused">>,
   <<"paused", "playing">>, <<"paused", "ended">>, <<"playing", "ended">>}
    \cup {<<s, "error">> : s \in StatedStatuses \ {"idle", "ended", "error"}}

\* C31: between two effect runs the status stays among the stated statuses
\* and every change of it follows an edge of the stated machine.
C31_StatusMachine ==
  [][requests' = requests =>
       /\ status' \in StatedStatuses
       /\ status' # status => <<status, status'>> \in StatedEdges]_vars

\* C32: while the url prop is cleared the status is idle and no step calls
\* onError.
C32_ClearedStaysIdle ==
  url = NoUrl => (status = "idle" /\ lastFailure.calls = 0)

\* The stated retry budget: base delay 500 ms, multiplier 1.5, 10 attempts.
StatedRetry ==
  [maxAttempts |-> 10, baseDelay |-> 500, backoffFactor |-> 15]

\* C33: an engine instance attached for a LIVE stream is, from the moment it
\* is asked to load, configured with lowLatencyMode and with the stated retry
\* budget for both manifest and segment retrieval.
C33_LiveProfile ==
  \A r \in Runs :
    (inits[r].player # 0 /\ inits[r].pc \in {"load", "done", "failed"}
       /\ isLive(inits[r].url))
      => /\ inits[r].config.lowLatencyMode
         /\ inits[r].config.streaming = StatedRetry
         /\ inits[r].config.manifest = StatedRetry

\* C34: terminate() leaves the service not ready; a call made while there is
\* no executor starts a fresh initialization and awaits it; and a call with
\* an executor operation pending has a loaded, unterminated executor.
C34_ReloadAfterTerminate ==
  [][/\ Terminate => ~loaded'
     /\ \A j \in Jobs, kind \in Kinds, fmt \in Formats :
          (ffmpeg = 0 /\ Call(j, kind, fmt))
            => /\ jobs'[j].pc = "load"
               /\ ffmpeg' # 0 /\ ffmpeg' \notin live
               /\ jobs'[j].awaits = ffmpeg'
     /\ \A j \in Jobs : jobs'[j].pc \in ExecutorPcs => ffmpeg' \in live']_vars

\* C35: a progress tick leaves the displayed progress and the argument of
\* onRemuxProgress a number between 0 and 100 percent, and for a tick parsed
\* from a log line the displayed progress is min(t / 60, 1).
C35_ProgressInUnitRange ==
  [][\A r \in Runs, tick \in Ticks :
       RemuxProgress(r, tick)
         => /\ remuxProgress' \in 0..100
            /\ reported'.defined /\ reported'.value \in 0..100
            /\ tick.parsed =>
                 remuxProgress' = (IF tick.time >= 60 THEN 100
                                   ELSE (tick.time * 100) \div 60)]_vars

\* C36: the positions saved while a URL plays are all after time 0 and no
\* two of them fall in the same second.
C36_OneSavePerBoundary ==
  \A i, j \in DOMAIN demo.saved :
    /\ demo.saved[i] > 0
    /\ floorSeconds(demo.saved[i]) % 5 = 0
    /\ i # j => floorSeconds(demo.saved[i]) # floorSeconds(demo.saved[j])

\* The indices 0 .. n - 1 in increasing order.
FirstIndices(n) ==
  [i \in 1..n |-> i - 1]

\* C37: a segmented call hands the segments to the callback in index order
\* from 0, each once and before it is deleted, and when it has left its loop
\* every segment the run produced was handed over.
C37_SegmentsDeliveredInOrder ==
  \A j \in Jobs :
    jobs[j].kind = "stream" =>
      /\ jobs[j].pc = "read" => jobs[j].chunks = FirstIndices(jobs[j].index)
      /\ jobs[j].pc = "delete-seg" =>
           /\ jobs[j].chunks = FirstIndices(jobs[j].index + 1)
           /\ exists(fs, segmentName(jobs[j].index))
      /\ jobs[j].pc = "delete-input" => jobs[j].chunks = FirstIndices(jobs[j].produced)

\* C38: whenever isReady() is true, this.ffmpeg holds an executor instance.
C38_ReadyImpliesExecutor ==
  loaded => ffmpeg # 0

\* C39: an initialization that a later effect run superseded while it waited
\* for its sink or its engine never completes as ready afterwards, and its
\* sink listeners do not react to a later event.
C39_SupersededNeverReady ==
  [][\A r \in Runs :
       r < requests =>
         /\ inits[r].pc \in {"canplay", "load"} => inits'[r].pc # "done"
         /\ inits[r].pc = "canplay" => inits'[r].pc # "failed"]_vars

\* C40: with every await settling and the sink answering each load, a status
\* of loading or remuxing is followed by ready or error, or by idle when the
\* URL was cleared meanwhile; a further URL request starts the wait anew.
C40_InitializationSettles ==
  (status \in {"loading", "remuxing"}) ~> (status \in {"ready", "error", "idle"})

\* A remux session went through remuxing and reached ready.
C40_Witness ==
  /\ status = "ready"
  /\ \E r \in Runs : r = requests /\ inits[r].pc = "done" /\ "remux" \in inits[r].paths

====
